---------------------------- MODULE Spec2Model ----------------------------
(***************************************************************************)
(* A model of agent.py: the anomaly detection tool (pandas pipeline over   *)
(* the engagement CSV), the hypothesis/evidence/reporting tool, and the    *)
(* __main__ workflow that chains them through the anomaly handoff file.    *)
(*                                                                         *)
(* CSV cells are kept as the text found in the file; read_csv's and        *)
(* to_datetime's conversions are the lookups ViewsValue and to_datetime.   *)
(* Floating point is avoided: a window's mean is kept as the window sum    *)
(* (mean * W) and its sample standard deviation as W*sumsq - sum^2         *)
(* (std^2 * W * (W-1)); the comparison with the upper band is done on      *)
(* these integers, which is exact for integer view counts.                 *)
(***************************************************************************)
EXTENDS Integers, Sequences, FiniteSets, TLC

\* ---------------------------------------------------------------- bounds
\* Rows of a data file in EngineSpec.
MaxRows == 4
\* Rows of a data file in Spec (the workflow).
MaxWfRows == 3

\* ------------------------------------------------------ program constants
MOVING_AVG_WINDOW == 2
STD_DEV_THRESHOLD == 2
\* The literal of "group['views'] > 1000".
VIEWS_FLOOR == 1000
\* A float NaN (an empty views cell, the first cell of shift(1), a rolling
\* window with fewer than W numbers).  View counts are never negative.
NaN == -1
\* pandas' NaT, what to_datetime(errors='coerce') makes of an unparseable date.
NaT == 0

W == MOVING_AVG_WINDOW
K == STD_DEV_THRESHOLD

\* ----------------------------------------------------------- CSV contents
\* Date cells and the day each parses to; any other text is unparseable.
DateCells == ("2025-07-01" :> 1) @@ ("2025-07-02" :> 2)
BadDate == "not-a-date"
\* Views cells that read_csv parses as numbers.  "" is a missing value and
\* "abc" is text: one such cell makes the whole views column dtype object.
NumericCells == ("100" :> 100) @@ ("500" :> 500) @@ ("1100" :> 1100) @@ ("5000" :> 5000)
Missing == ""
BadViews == "abc"

\* The order of the identifier strings ("DE" < "US" as Python compares them).
Rank == ("A1" :> 1) @@ ("DE" :> 1) @@ ("N1" :> 1) @@ ("T1" :> 1) @@ ("US" :> 2)

Row(d, c, v) ==
    [date |-> d, track_id |-> "T1", track_name |-> "N1", artist_name |-> "A1",
     country |-> c, views |-> v, platform |-> "YouTube Shorts"]

\* ------------------------------------------------------ pandas primitives
to_datetime(cell) == IF cell \in DOMAIN DateCells THEN DateCells[cell] ELSE NaT

strftime(day) == CHOOSE cell \in DOMAIN DateCells : DateCells[cell] = day

\* The float read_csv (or, in an object column, the rolling window's
\* float64 coercion) makes of a views cell.
ViewsValue(cell) == IF cell \in DOMAIN NumericCells THEN NumericCells[cell] ELSE NaN

\* read_csv: the views column is numeric unless some cell is text.
ViewsAreObject(rows) == \E i \in 1..Len(rows) : rows[i].views = BadViews

\* df['date'] = to_datetime(...); df.dropna(subset=['date'])
dropna_date(rows) == SelectSeq(rows, LAMBDA r : to_datetime(r.date) # NaT)

\* by=['track_id', 'country', 'date']
SortKeyLess(a, b) ==
    LET ka == <<Rank[a.track_id], Rank[a.country], to_datetime(a.date)>>
        kb == <<Rank[b.track_id], Rank[b.country], to_datetime(b.date)>>
    IN  \/ ka[1] < kb[1]
        \/ ka[1] = kb[1] /\ ka[2] < kb[2]
        \/ ka[1] = kb[1] /\ ka[2] = kb[2] /\ ka[3] < kb[3]

RECURSIVE InsertSorted(_, _)
InsertSorted(s, r) ==
    IF s = <<>> THEN <<r>>
    ELSE IF SortKeyLess(r, Head(s)) THEN <<r>> \o s
    ELSE <<Head(s)>> \o InsertSorted(Tail(s), r)

\* df.sort_values: rows with equal keys keep their file order.
RECURSIVE sort_values(_)
sort_values(rows) ==
    IF rows = <<>> THEN <<>>
    ELSE InsertSorted(sort_values(SubSeq(rows, 1, Len(rows) - 1)), rows[Len(rows)])

\* groupby(['track_id', 'track_name', 'artist_name', 'country'])
GroupKey(r) == <<r.track_id, r.track_name, r.artist_name, r.country>>

KeyLeq(a, b) ==
    \/ Rank[a[1]] < Rank[b[1]]
    \/ Rank[a[1]] = Rank[b[1]] /\ Rank[a[2]] < Rank[b[2]]
    \/ Rank[a[1]] = Rank[b[1]] /\ Rank[a[2]] = Rank[b[2]] /\ Rank[a[3]] < Rank[b[3]]
    \/ Rank[a[1]] = Rank[b[1]] /\ Rank[a[2]] = Rank[b[2]] /\ Rank[a[3]] = Rank[b[3]]
         /\ Rank[a[4]] <= Rank[b[4]]

RECURSIVE SortedKeys(_)
SortedKeys(S) ==
    IF S = {} THEN <<>>
    ELSE LET m == CHOOSE k \in S : \A j \in S : KeyLeq(k, j)
         IN  <<m>> \o SortedKeys(S \ {m})

\* The groups in the order "for name, group in grouped" visits them.
GroupKeys(rows) == SortedKeys({GroupKey(rows[i]) : i \in 1..Len(rows)})

GroupRows(rows, key) == SelectSeq(rows, LAMBDA r : GroupKey(r) = key)

\* ------------------------------------------------- rolling statistics
\* Mutant: the window is taken over the views themselves, not shift(1).
shifted_views_Unshifted(group, i) == ViewsValue(group[i].views)

\* group['views'].shift(1), as floats; positions are 1-based here.
shifted_views(group, i) == IF i = 1 THEN NaN ELSE ViewsValue(group[i - 1].views)

\* The W cells the rolling window ending at position i covers.
WindowIdx(i) == (i - W + 1)..i

\* rolling(window=W) has min_periods = W: a result needs W numbers.
WindowFull(group, i) ==
    /\ i >= W
    /\ \A j \in WindowIdx(i) : shifted_views(group, j) # NaN

RECURSIVE SumOver(_, _, _)
SumOver(group, S, sq) ==
    IF S = {} THEN 0
    ELSE LET j == CHOOSE x \in S : TRUE
             v == shifted_views(group, j)
         IN  (IF sq THEN v * v ELSE v) + SumOver(group, S \ {j}, sq)

\* rolling(...).mean() * W
moving_avg(group, i) ==
    IF WindowFull(group, i) THEN SumOver(group, WindowIdx(i), FALSE) ELSE NaN

\* (rolling(...).std().fillna(0))^2 * W * (W-1)
moving_std(group, i) ==
    IF WindowFull(group, i) /\ W > 1
    THEN W * SumOver(group, WindowIdx(i), TRUE)
           - SumOver(group, WindowIdx(i), FALSE) * SumOver(group, WindowIdx(i), FALSE)
    ELSE 0

\* views > moving_avg + moving_std * STD_DEV_THRESHOLD, on the scaled values:
\* v - sum/W > K * sqrt(var)  iff  W*v - sum > 0 and its square * (W-1)
\* exceeds K^2 * W * (W*sumsq - sum^2).  A NaN on either side compares False.
AboveBand(v, avg, std) ==
    /\ v # NaN
    /\ avg # NaN
    /\ W * v - avg > 0
    /\ \/ std = 0
       \/ (W * v - avg) * (W * v - avg) * (W - 1) > K * K * W * std

\* One row of the group frame after lines 102-105.
RollingPoint(group, i) ==
    [pos |-> i, row |-> group[i], views |-> ViewsValue(group[i].views),
     moving_avg |-> moving_avg(group, i), moving_std |-> moving_std(group, i)]

\* group.dropna(subset=['moving_avg'])
dropna_moving_avg(group) ==
    LET keep == {i \in 1..Len(group) : moving_avg(group, i) # NaN}
        F[i \in 0..Len(group)] ==
            IF i = 0 THEN <<>>
            ELSE IF i \in keep THEN Append(F[i - 1], RollingPoint(group, i))
            ELSE F[i - 1]
    IN  F[Len(group)]

\* Mutant: the floor is not tested.
IsAnomaly_NoFloor(p) == AboveBand(p.views, p.moving_avg, p.moving_std)

\* (group['views'] > group['upper_band']) & (group['views'] > 1000)
IsAnomaly(p) ==
    /\ AboveBand(p.views, p.moving_avg, p.moving_std)
    /\ p.views > VIEWS_FLOOR

\* round(row['moving_avg'], 2), in hundredths.
local_average(avg) == (200 * avg + W) \div (2 * W)

anomaly_data(p) ==
    [date |-> strftime(to_datetime(p.row.date)),
     track_id |-> p.row.track_id, track_name |-> p.row.track_name,
     artist_name |-> p.row.artist_name, country |-> p.row.country,
     views |-> p.views, local_average |-> local_average(p.moving_avg),
     platform |-> p.row.platform]

\* Lines 113-124: one record for each row of anomalies_df, in its order.
Records(anomalies_df) ==
    [i \in 1..Len(anomalies_df) |-> anomaly_data(anomalies_df[i])]

\* ------------------------------------------------------- the try block
\* In an object column every cell that is not missing is a Python str.
\* The rolling window coerces shifted_views (cells 1..n-1 of the group) to
\* float64, which raises on text that is no number ...
RollingRaises(group) == \E i \in 1..(Len(group) - 1) : group[i].views = BadViews

\* ... and "group['views'] > ..." raises TypeError on any str cell left in
\* the frame.
CompareRaises(frame) == \E i \in 1..Len(frame) : frame[i].row.views # Missing

\* Lines 93-125: the loop over the groups.  acc is what the locals hold:
\* exc (the exception that ended the loop, "none" if none did),
\* all_anomalies, and evaluated (each classified group's key and frame).
RECURSIVE AnalyzeGroups(_, _, _, _)
AnalyzeGroups(df, keys, object, acc) ==
    IF keys = <<>> THEN acc
    ELSE LET group == GroupRows(df, Head(keys))
             frame == dropna_moving_avg(group)
         IN  IF Len(group) < MOVING_AVG_WINDOW
             THEN AnalyzeGroups(df, Tail(keys), object, acc)
             ELSE IF object /\ (RollingRaises(group) \/ CompareRaises(frame))
             THEN [acc EXCEPT !.exc = "Exception"]
             ELSE AnalyzeGroups(df, Tail(keys), object,
                    [exc |-> "none",
                     all_anomalies |-> acc.all_anomalies
                         \o Records(SelectSeq(frame, IsAnomaly)),
                     evaluated |-> Append(acc.evaluated,
                                          [key |-> Head(keys), frame |-> frame])])

NoLocals == [exc |-> "none", all_anomalies |-> <<>>, evaluated |-> <<>>]

\* Lines 78-125.  A data file is [exists, readable, rows].
TryBody(file) ==
    IF ~file.exists THEN [NoLocals EXCEPT !.exc = "FileNotFoundError"]
    ELSE IF ~file.readable THEN [NoLocals EXCEPT !.exc = "Exception"]
    ELSE LET df == sort_values(dropna_date(file.rows))
         IN  AnalyzeGroups(df, GroupKeys(df), ViewsAreObject(file.rows), NoLocals)

\* ------------------------------------------------------ returned values
\* A tool's outcome is the dict it returns, or Raised(e) when an exception
\* leaves the function and nothing is returned.
Raised(e) == [exception |-> e]
NotCalled == [not_called |-> TRUE]
ANOMALY_FILE == "samples/YouTubeAgent/output/anomalies.json"
FINAL_REPORT_FILE == "samples/YouTubeAgent/output/final_analysis_report.md"

\* Mutant: only FileNotFoundError is caught.
ExceptClause_OnlyNotFound(exc) ==
    IF exc = "FileNotFoundError"
    THEN [status |-> "error", message |-> "Data file not found"]
    ELSE Raised(exc)

\* Lines 127-130.
ExceptClause(exc) ==
    IF exc = "FileNotFoundError"
    THEN [status |-> "error", message |-> "Data file not found"]
    ELSE [status |-> "error", message |-> "An error occurred during analysis"]

\* Mutant: no early return, an empty list is saved too.
ReturnsEarly_Never(anoms) == FALSE

\* Line 132: "if not all_anomalies".
ReturnsEarly(anoms) == anoms = <<>>

\* Lines 137-138.  A file is [exists, wellformed, content].  open() may fail
\* (the file is left alone) and json.dump may fail after open() truncated it.
NoFile == [exists |-> FALSE, wellformed |-> FALSE, content |-> <<>>]
WriteOutcomes == {"ok", "open_fails", "dump_fails"}
WriteAnomalies(old, anoms, how) ==
    CASE how = "ok" -> [exists |-> TRUE, wellformed |-> TRUE, content |-> anoms]
      [] how = "open_fails" -> old
      [] how = "dump_fails" -> [exists |-> TRUE, wellformed |-> FALSE, content |-> <<>>]

\* Lines 70-141: every way one call can end, as [result, file, locals].
data_ingestion_and_anomaly_detection_tool(file, old) ==
    LET t == TryBody(file)
    IN  IF t.exc # "none"
        THEN {[result |-> ExceptClause(t.exc), file |-> old, locals |-> t]}
        ELSE IF ReturnsEarly(t.all_anomalies)
        THEN {[result |-> [status |-> "success",
                           message |-> "No significant anomalies found."],
               file |-> old, locals |-> t]}
        ELSE {[result |-> IF how = "ok"
                          THEN [status |-> "success",
                                anomalies_found |-> Len(t.all_anomalies),
                                output_file |-> ANOMALY_FILE]
                          ELSE Raised(how),
               file |-> WriteAnomalies(old, t.all_anomalies, how),
               locals |-> t] : how \in WriteOutcomes}

\* ------------------------------------------------- the reporting tool
\* The parts of the f-string query that vary (lines 159-161).
Query(anomaly) ==
    <<anomaly.track_name, anomaly.artist_name, anomaly.country, anomaly.date>>

\* Mutant: a failed search returns an empty text.
google_search_NoSentinel(query, failed) ==
    IF failed THEN <<"", query>> ELSE <<"response.text", query>>

\* Lines 53-65: the model's text, or the error string when the call raised.
google_search(query, failed) ==
    IF failed THEN <<"Error: Could not perform search for query", query>>
    ELSE <<"response.text", query>>

\* Lines 167-168: anomaly.copy() with research_summary set.
anomaly_with_research(anomaly, search_summary) ==
    ("research_summary" :> search_summary) @@ anomaly

\* Lines 198-199: the text the model generates from the prompt; nothing in
\* the code fixes how it depends on researched_anomalies.
final_report_text(researched) == "response.text"

\* Lines 201-202, as WriteAnomalies.
WriteReport(old, text, how) ==
    CASE how = "ok" -> [exists |-> TRUE, wellformed |-> TRUE, content |-> text]
      [] how = "open_fails" -> old
      [] how = "write_fails" -> [exists |-> TRUE, wellformed |-> FALSE, content |-> ""]

\* Mutant: anomalies_found is not looked at.
ProceedsToReport_StatusOnly(r) == "status" \in DOMAIN r /\ r.status = "success"

\* Line 263.
ProceedsToReport(r) ==
    /\ "status" \in DOMAIN r
    /\ r.status = "success"
    /\ (IF "anomalies_found" \in DOMAIN r THEN r.anomalies_found ELSE 0) > 0

\* ------------------------------------------------------------- state
VARIABLES
    dataFile,              \* DATA_FILE: [exists, readable, rows]
    anomalyFile,           \* ANOMALY_FILE: [exists, wellformed, content]
    reportFile,            \* FINAL_REPORT_FILE: [exists, wellformed, content]
    anomaly_result,        \* outcome of the latest detection tool call
    report_result,         \* outcome of the latest reporting tool call
    all_anomalies,         \* the detection tool's list when its call ended
    evaluated,             \* the group frames the detection tool classified
    mainPc,                \* __main__: start, step2, reporting, finished, crashed
    main_branch,           \* the branch __main__ took at lines 263-269
    rpc,                   \* reporting tool: idle, loop, synthesize, write
    rcaller,               \* who called the running reporting tool
    anomalies,             \* reporting tool local
    researched_anomalies,  \* reporting tool local
    searchLog              \* google_search calls of this run: [query, failed]

vars == <<dataFile, anomalyFile, reportFile, anomaly_result, report_result,
          all_anomalies, evaluated, mainPc, main_branch, rpc, rcaller,
          anomalies, researched_anomalies, searchLog>>

detectionVars == <<anomaly_result, all_anomalies, evaluated>>
reportLocals == <<anomalies, researched_anomalies, searchLog>>

\* ------------------------------------------------------ input data files
MissingFile == [exists |-> FALSE, readable |-> FALSE, rows |-> <<>>]
UnreadableFile == [exists |-> TRUE, readable |-> FALSE, rows |-> <<>>]
Table(rows) == [exists |-> TRUE, readable |-> TRUE, rows |-> rows]

Tables(R, n) == UNION {[1..k -> R] : k \in 0..n}

\* The rows of EngineSpec's tables: one track in two countries, rows out of
\* date order, missing and unparseable cells.
EngineRows ==
    {Row("2025-07-01", "US", v) : v \in {"100", "500", "5000", Missing, BadViews}}
    \cup {Row("2025-07-02", "US", v) : v \in {"100", "5000"}}
    \cup {Row("2025-07-01", "DE", v) : v \in {"100", BadViews}}
    \cup {Row(BadDate, "US", "100")}

\* The rows of Spec's tables.
WorkflowRows ==
    {Row("2025-07-01", "US", v) : v \in {"100", "1100", "5000", BadViews}}
    \cup {Row(BadDate, "US", "100")}

InitRest ==
    /\ reportFile = [exists |-> FALSE, wellformed |-> FALSE, content |-> ""]
    /\ anomaly_result = NotCalled
    /\ report_result = NotCalled
    /\ all_anomalies = <<>>
    /\ evaluated = <<>>
    /\ mainPc = "start"
    /\ main_branch = "none"
    /\ rpc = "idle"
    /\ rcaller = "none"
    /\ anomalies = <<>>
    /\ researched_anomalies = <<>>
    /\ searchLog = <<>>

\* OUTPUT_DIR outlives the process (line 49 keeps what is there): the
\* handoff file may be the one a run of an earlier process saved, here for
\* an earlier data file with two spikes.
EarlierRows ==
    <<Row("2025-07-01", "US", "100"), Row("2025-07-01", "US", "100"),
      Row("2025-07-02", "US", "1100"), Row("2025-07-02", "US", "5000")>>
EarlierFile == WriteAnomalies(NoFile, TryBody(Table(EarlierRows)).all_anomalies, "ok")

Init ==
    /\ dataFile \in {MissingFile, UnreadableFile}
                    \cup {Table(t) : t \in Tables(WorkflowRows, MaxWfRows)}
    /\ anomalyFile \in {NoFile, EarlierFile}
    /\ InitRest

EngineInit ==
    /\ dataFile \in {MissingFile, UnreadableFile}
                    \cup {Table(t) : t \in Tables(EngineRows, MaxRows)}
    /\ anomalyFile = NoFile
    /\ InitRest

\* ------------------------------------------------------------ actions
Returned(r) == "status" \in DOMAIN r

\* One call of data_ingestion_and_anomaly_detection_tool.
DetectionCall ==
    \E o \in data_ingestion_and_anomaly_detection_tool(dataFile, anomalyFile) :
        /\ anomaly_result' = o.result
        /\ anomalyFile' = o.file
        /\ all_anomalies' = o.locals.all_anomalies
        /\ evaluated' = o.locals.evaluated

\* The reporting tool ends: its locals die, and __main__ goes on (or dies
\* with the exception).
ReportReturn(caller, result) ==
    /\ report_result' = result
    /\ rpc' = "idle"
    /\ rcaller' = "none"
    /\ anomalies' = <<>>
    /\ researched_anomalies' = <<>>
    /\ searchLog' = <<>>
    /\ mainPc' = IF caller # "main" THEN mainPc
                 ELSE IF Returned(result) THEN "finished" ELSE "crashed"

\* Lines 150-156.
ReportOpen(caller) ==
    /\ rpc = "idle"
    /\ \/ /\ ~anomalyFile.exists
          /\ ReportReturn(caller, [status |-> "error",
                                   message |-> "Anomaly file not found"])
       \/ /\ anomalyFile.exists
          /\ ~anomalyFile.wellformed
          /\ ReportReturn(caller, Raised("JSONDecodeError"))
       \/ /\ anomalyFile.exists
          /\ anomalyFile.wellformed
          /\ anomalies' = anomalyFile.content
          /\ researched_anomalies' = <<>>
          /\ searchLog' = <<>>
          /\ rpc' = "loop"
          /\ rcaller' = caller
          /\ report_result' = NotCalled
          /\ mainPc' = IF caller = "main" THEN "reporting" ELSE mainPc
    /\ UNCHANGED <<dataFile, anomalyFile, reportFile, detectionVars>>

\* Lines 157-169: one pass of the loop body.
ReportResearch ==
    /\ rpc = "loop"
    /\ Len(researched_anomalies) < Len(anomalies)
    /\ \E failed \in BOOLEAN :
         LET anomaly == anomalies[Len(researched_anomalies) + 1]
             query == Query(anomaly)
         IN  /\ searchLog' = Append(searchLog, [query |-> query, failed |-> failed])
             /\ researched_anomalies' =
                  Append(researched_anomalies,
                         anomaly_with_research(anomaly, google_search(query, failed)))
    /\ UNCHANGED <<dataFile, anomalyFile, reportFile, detectionVars, mainPc,
                   main_branch, rpc, rcaller, anomalies, report_result>>

\* Line 157 with the list used up: on to the prompt (lines 172-197).
ReportLoopEnds ==
    /\ rpc = "loop"
    /\ Len(researched_anomalies) = Len(anomalies)
    /\ rpc' = "synthesize"
    /\ UNCHANGED <<dataFile, anomalyFile, reportFile, detectionVars, mainPc,
                   main_branch, rcaller, reportLocals, report_result>>

\* Lines 198-199: generate_content answers or raises.
ReportSynthesize ==
    /\ rpc = "synthesize"
    /\ \/ /\ rpc' = "write"
          /\ UNCHANGED <<mainPc, rcaller, reportLocals, report_result>>
       \/ ReportReturn(rcaller, Raised("GenerationError"))
    /\ UNCHANGED <<dataFile, anomalyFile, reportFile, detectionVars, main_branch>>

\* Lines 201-205.
ReportWrite ==
    /\ rpc = "write"
    /\ \E how \in {"ok", "open_fails", "write_fails"} :
         /\ reportFile' = WriteReport(reportFile,
                                      final_report_text(researched_anomalies), how)
         /\ ReportReturn(rcaller,
                         IF how = "ok"
                         THEN [status |-> "success", output_file |-> FINAL_REPORT_FILE]
                         ELSE Raised(how))
    /\ UNCHANGED <<dataFile, anomalyFile, detectionVars, main_branch>>

\* The agents' tool calls, in any order, before __main__ is run.
AgentIdle == rpc = "idle" /\ mainPc = "start"

AgentDetect ==
    /\ AgentIdle
    /\ DetectionCall
    /\ UNCHANGED <<dataFile, reportFile, report_result, mainPc, main_branch,
                   rpc, rcaller, reportLocals>>

AgentReport ==
    /\ AgentIdle
    /\ ReportOpen("agent")
    /\ UNCHANGED main_branch

\* Line 258.
MainDetect ==
    /\ AgentIdle
    /\ DetectionCall
    /\ mainPc' = IF Returned(anomaly_result') THEN "step2" ELSE "crashed"
    /\ UNCHANGED <<dataFile, reportFile, report_result, main_branch,
                   rpc, rcaller, reportLocals>>

\* Lines 263-271.
MainBranch ==
    /\ mainPc = "step2"
    /\ \/ /\ ProceedsToReport(anomaly_result)
          /\ main_branch' = "report"
          /\ ReportOpen("main")
       \/ /\ ~ProceedsToReport(anomaly_result)
          /\ main_branch' = IF anomaly_result.status = "error"
                            THEN "error" ELSE "no_anomalies"
          /\ mainPc' = "finished"
          /\ UNCHANGED <<dataFile, anomalyFile, reportFile, detectionVars,
                         report_result, rpc, rcaller, reportLocals>>

\* The environment: the data file is removed.
DataFileLost ==
    /\ dataFile.exists
    /\ dataFile' = MissingFile
    /\ UNCHANGED <<anomalyFile, reportFile, detectionVars, report_result, mainPc,
                   main_branch, rpc, rcaller, reportLocals>>

Next ==
    \/ AgentDetect
    \/ AgentReport
    \/ MainDetect
    \/ MainBranch
    \/ ReportResearch
    \/ ReportLoopEnds
    \/ ReportSynthesize
    \/ ReportWrite
    \/ DataFileLost

Spec == Init /\ [][Next]_vars

\* The detection tool alone, on every table of EngineRows.
EngineNext == AgentDetect

EngineSpec == EngineInit /\ [][EngineNext]_vars

\* ============================================================== claims
Range(s) == {s[i] : i \in 1..Len(s)}

Succeeded(r) == Returned(r) /\ r.status = "success"
FoundAnomalies(r) ==
    Succeeded(r) /\ "anomalies_found" \in DOMAIN r /\ r.anomalies_found > 0
DetectionStep == AgentDetect \/ MainDetect

\* The latest detection call got through the loop over the groups: it
\* returned success, or died writing the file.
AnalysisCompleted ==
    /\ anomaly_result # NotCalled
    /\ ~(Returned(anomaly_result) /\ anomaly_result.status = "error")

\* The frame after lines 83-88 of the table the data file holds.
CleanedFrame == sort_values(dropna_date(dataFile.rows))

RECURSIVE Concat(_)
Concat(ss) == IF ss = <<>> THEN <<>> ELSE Head(ss) \o Concat(Tail(ss))

\* ------------------------------------------------------------------ C1
UpperBandExceeded(p) == AboveBand(p.views, p.moving_avg, p.moving_std)
FloorExceeded(p) == p.views # NaN /\ p.views > VIEWS_FLOOR
QualifyingRecords(e) ==
    LET q == SelectSeq(e.frame, LAMBDA p : UpperBandExceeded(p) /\ FloorExceeded(p))
    IN  [i \in 1..Len(q) |-> anomaly_data(q[i])]

\* C1: when a detection run gets through its analysis, the records it
\* emits are, group by group and in order, one record for each observation
\* with a defined RollingPoint whose views exceed both the upper band and
\* the floor, and none for any other observation; a saved file holds
\* exactly these records.
C1_ThresholdConjunction ==
    AnalysisCompleted =>
        /\ all_anomalies
             = Concat([i \in 1..Len(evaluated) |-> QualifyingRecords(evaluated[i])])
        /\ \A e \in Range(evaluated) : \A p \in Range(e.frame) :
             (UpperBandExceeded(p) /\ ~FloorExceeded(p)) =>
                 \A a \in Range(all_anomalies) :
                     ~(a.country = p.row.country /\ a.views = p.views
                       /\ a.local_average = local_average(p.moving_avg))
        /\ (Returned(anomaly_result) /\ "anomalies_found" \in DOMAIN anomaly_result) =>
               anomalyFile.content = all_anomalies

\* A run that saved a record and left out an observation of the same
\* segment that is above its band but not above the floor.
C1_Witness ==
    /\ FoundAnomalies(anomaly_result)
    /\ \E e \in Range(evaluated) : \E p, q \in Range(e.frame) :
         /\ UpperBandExceeded(p) /\ ~FloorExceeded(p)
         /\ UpperBandExceeded(q) /\ FloorExceeded(q)

\* ------------------------------------------------------------------ C2
EvaluatedPositions(key) ==
    UNION {{p.pos : p \in Range(e.frame)} : e \in {x \in Range(evaluated) : x.key = key}}

\* C2: in a run that gets through its analysis, a segment of n observations
\* has exactly its positions W+1..n (1-based; 0-based i >= W) evaluated:
\* none for n <= W, one for n = W+1.
C2_WindowingBoundary ==
    (AnalysisCompleted /\ dataFile.readable) =>
        \A key \in Range(GroupKeys(CleanedFrame)) :
            EvaluatedPositions(key)
                = (MOVING_AVG_WINDOW + 1)..Len(GroupRows(CleanedFrame, key))

\* ------------------------------------------------------------------ C3
ViewsCells == DOMAIN NumericCells \cup {Missing, BadViews}

ComputedPoint(e, i) ==
    IF \E p \in Range(e.frame) : p.pos = i
    THEN LET p == CHOOSE q \in Range(e.frame) : q.pos = i
         IN  <<p.moving_avg, p.moving_std>>
    ELSE <<NaN, 0>>

\* C3: the moving_avg and moving_std a run computed at a position of a
\* segment are those the code computes at that position of any segment
\* that differs from it only in the views cell of that position or of a
\* later one.
C3_Causality ==
    (AnalysisCompleted /\ dataFile.readable) =>
        \A e \in Range(evaluated) :
            LET g == GroupRows(CleanedFrame, e.key)
            IN  \A i \in 1..Len(g) : \A j \in i..Len(g) : \A c \in ViewsCells :
                    LET g2 == [g EXCEPT ![j].views = c]
                    IN  <<moving_avg(g2, i), moving_std(g2, i)>> = ComputedPoint(e, i)

\* A run that computed two RollingPoints in one segment: the first one's
\* later position holds the second one's observation.
C3_Witness ==
    /\ AnalysisCompleted
    /\ \E e \in Range(evaluated) : \E p, q \in Range(e.frame) :
         p.pos < q.pos /\ p.moving_avg # q.moving_avg

\* ------------------------------------------------------------------ C4
\* What a run on a data file emits: nothing when it ends in error.
EmittedBy(file) ==
    LET t == TryBody(file) IN IF t.exc = "none" THEN t.all_anomalies ELSE <<>>

RecordsOf(key, records) ==
    SelectSeq(records, LAMBDA a :
        <<a.track_id, a.track_name, a.artist_name, a.country>> = key)

\* C4: the records a run emits for an entity key are those a run emits on
\* the rows of that key alone, whatever the other rows are.
C4_SegmentationIsolation ==
    (anomaly_result # NotCalled /\ dataFile.readable) =>
        \A key \in {GroupKey(r) : r \in Range(dataFile.rows)} :
            RecordsOf(key, IF AnalysisCompleted THEN all_anomalies ELSE <<>>)
                = RecordsOf(key, EmittedBy(Table(
                      SelectSeq(dataFile.rows, LAMBDA r : GroupKey(r) = key))))

\* ----------------------------------------------------------------- C10
BadRow(r) == to_datetime(r.date) = NaT \/ r.views \notin DOMAIN NumericCells

\* C10: rows with an unparseable date or an unparseable or missing views
\* cell do not turn the run into an error, and the records emitted are
\* those of a run on the table without these rows.
C10_BadRowsDropped ==
    (anomaly_result # NotCalled /\ dataFile.readable) =>
        /\ AnalysisCompleted
        /\ all_anomalies
             = EmittedBy(Table(SelectSeq(dataFile.rows, LAMBDA r : ~BadRow(r))))

\* ------------------------------------------------------------------ C5

\* C5 as claimed: once a detection run has ended, the handoff file exists
\* exactly when the latest run ended in success.
C5_FileExistsIffLatestRunSucceeded ==
    anomaly_result # NotCalled => (anomalyFile.exists <=> Succeeded(anomaly_result))

\* C5 as amended: the handoff file is never removed, and it is created or
\* changed only by a detection run that found at least one anomaly and did
\* not end in error; a run that returns success with anomalies leaves the
\* file holding exactly its records.
C5_HandoffWrittenOnlyWithAnomalies ==
    /\ [][/\ anomalyFile.exists => anomalyFile'.exists
          /\ anomalyFile' # anomalyFile =>
               /\ DetectionStep
               /\ all_anomalies' # <<>>
               /\ AnalysisCompleted'
               /\ "message" \notin DOMAIN anomaly_result']_vars
    /\ [](("anomalies_found" \in DOMAIN anomaly_result) =>
            /\ FoundAnomalies(anomaly_result)
            /\ anomaly_result.anomalies_found = Len(all_anomalies)
            /\ anomalyFile = [exists |-> TRUE, wellformed |-> TRUE,
                              content |-> all_anomalies])

\* The latest run ended in error, and the file of an earlier run is there.
C5_Witness ==
    /\ Returned(anomaly_result)
    /\ anomaly_result.status = "error"
    /\ anomalyFile.exists
    /\ anomalyFile.wellformed

\* ------------------------------------------------------------------ C6
\* C6: a detection run whose data file is missing or unreadable, or whose
\* analysis raises, returns status "error" with a message and leaves the
\* handoff file exactly as it was.
C6_ErrorLeavesHandoffUntouched ==
    [][(DetectionStep /\ TryBody(dataFile).exc # "none") =>
          /\ Returned(anomaly_result')
          /\ anomaly_result'.status = "error"
          /\ "message" \in DOMAIN anomaly_result'
          /\ anomalyFile' = anomalyFile]_vars

\* A run on a readable table whose analysis raised.
C6_Witness ==
    /\ dataFile.readable
    /\ TryBody(dataFile).exc = "Exception"
    /\ anomaly_result = [status |-> "error",
                         message |-> "An error occurred during analysis"]

\* ------------------------------------------------------------------ C7
\* A success result names its output file where an error result has its
\* message; either counts as the result's text here.
StatusTagged(r) ==
    /\ Returned(r)
    /\ r.status \in {"success", "error"}
    /\ ("message" \in DOMAIN r \/ "output_file" \in DOMAIN r)

\* C7: every call of the detection tool and of the reporting tool that has
\* ended returned a result with status "success" or "error" and a text.
C7_EveryCallReturnsStatus ==
    /\ anomaly_result # NotCalled => StatusTagged(anomaly_result)
    /\ report_result # NotCalled => StatusTagged(report_result)

\* ------------------------------------------------------------------ C8
\* C8: a detection run that gets through its analysis with nothing flagged
\* returns success without anomalies_found, which a success with anomalies
\* always has; __main__ calls the reporting tool only after its detection
\* run returned success with anomalies_found > 0, and after a success
\* without anomalies it finishes on the no-anomalies branch.
C8_EmptyResultSkipsReporting ==
    /\ [][(/\ DetectionStep
           /\ TryBody(dataFile).exc = "none"
           /\ TryBody(dataFile).all_anomalies = <<>>) =>
             /\ Succeeded(anomaly_result')
             /\ "anomalies_found" \notin DOMAIN anomaly_result']_vars
    /\ [][(MainBranch /\ ~FoundAnomalies(anomaly_result)) =>
             /\ mainPc' = "finished"
             /\ UNCHANGED <<rpc, rcaller, report_result, reportFile, reportLocals>>]_vars
    /\ [](/\ (rcaller = "main" \/ mainPc = "reporting" \/ main_branch = "report") =>
                FoundAnomalies(anomaly_result)
          /\ (mainPc = "finished" /\ Succeeded(anomaly_result)
                /\ ~FoundAnomalies(anomaly_result)) =>
                main_branch = "no_anomalies")

\* __main__ finished on the no-anomalies branch for a table whose rows all
\* lost their date.
C8_Witness ==
    /\ mainPc = "finished"
    /\ main_branch = "no_anomalies"
    /\ dataFile.readable
    /\ dataFile.rows # <<>>
    /\ dropna_date(dataFile.rows) = <<>>
    /\ anomaly_result = [status |-> "success",
                         message |-> "No significant anomalies found."]

\* ------------------------------------------------------------------ C9
ErrorSentinel(query) == <<"Error: Could not perform search for query", query>>

\* C9: while the reporting tool runs, google_search has been called once
\* for each anomaly handled so far, in list order; each handled anomaly is
\* in researched_anomalies at its place, unchanged but for research_summary,
\* which is the error sentinel exactly when its search failed; the loop
\* ends only with every anomaly handled, and synthesis follows.
C9_FailedLookupIsolated ==
    /\ [](rpc # "idle" =>
            /\ Len(searchLog) = Len(researched_anomalies)
            /\ Len(researched_anomalies) <= Len(anomalies)
            /\ \A i \in 1..Len(researched_anomalies) :
                 /\ searchLog[i].query = Query(anomalies[i])
                 /\ \A f \in DOMAIN anomalies[i] :
                      researched_anomalies[i][f] = anomalies[i][f]
                 /\ searchLog[i].failed <=>
                      (researched_anomalies[i].research_summary
                         = ErrorSentinel(Query(anomalies[i])))
            /\ (rpc \in {"synthesize", "write"} =>
                  Len(researched_anomalies) = Len(anomalies)))
    /\ [][rpc = "loop" => rpc' \in {"loop", "synthesize"}]_vars

\* Synthesis is about to be called for two anomalies, the first of which
\* had its search fail.
C9_Witness ==
    /\ rpc = "synthesize"
    /\ Len(anomalies) = 2
    /\ searchLog[1].failed
    /\ ~searchLog[2].failed

=============================================================================
